---- MODULE Spec2Model ----
(***************************************************************************)
(* Model of the App component of src/src/App.jsx (and of its earlier copy  *)
(* src/unnamed/part_000, which differs only in the prompt text): the three *)
(* state cells files / status / errorLog, the file-input handler, and the  *)
(* async function processFiles, cut into one step per await.               *)
(*                                                                         *)
(* A step of processFiles is "the awaited call settles, then the function  *)
(* runs synchronously up to its next await (or returns)".  The external    *)
(* capabilities (File.arrayBuffer, pdf.js, Tesseract, the chat-completion  *)
(* endpoint, fetch) are the environment: each call either resolves with a  *)
(* value drawn from a small set or rejects with an Error.                  *)
(***************************************************************************)
EXTENDS Integers, Sequences, FiniteSets, TLC

VARIABLES
    files,      \* useState([])      : the current file selection
    status,     \* useState("idle")  : the status string
    errorLog,   \* useState("")      : the message shown with status "error"
    alertOpen,  \* the modal alert("Please upload files first") is showing
    runs,       \* activation frames of processFiles (see StartRun)
    inflight    \* external calls issued and not yet settled

vars == <<files, status, errorLog, alertOpen, runs, inflight>>

(***************************************************************************)
(* Bounds                                                                  *)
(***************************************************************************)
MaxFiles == 2     \* longest file selection the user makes
MaxFrames == 2    \* cap on simultaneously live activations of processFiles

(***************************************************************************)
(* Inputs: files, and what the external capabilities answer                *)
(***************************************************************************)
PDF == "application/pdf"

\* A file: the media type the browser reports, and the text an exact OCR
\* reads from it (one entry for an image, one entry per page for a PDF).
FileSet ==
    { [name |-> "A", type |-> "image/png", pages |-> <<"a">>],
      [name |-> "B", type |-> PDF,         pages |-> <<"b1", "b2">>] }

RECURSIVE SeqsUpTo(_, _)
SeqsUpTo(S, n) ==
    IF n = 0 THEN { <<>> }
    ELSE LET shorter == SeqsUpTo(S, n - 1)
         IN  shorter \cup { Append(s, x) : s \in shorter, x \in S }

Selections == SeqsUpTo(FileSet, MaxFiles)

\* The eleven keys the system prompt asks for.
SchemaKeys ==
    { "payee", "tin", "address", "purpose", "category", "currency", "amount",
      "amountinwords", "accountnum", "mobilenum", "sib" }

\* Text returned as completion.choices[0].message.content.  wf: it is
\* well-formed JSON; kind/keys/flat: the value it denotes; ws: its layout.
Contents ==
    { [wf |-> TRUE,  kind |-> "object", keys |-> SchemaKeys, flat |-> TRUE,  ws |-> "pretty"],
      [wf |-> TRUE,  kind |-> "object", keys |-> SchemaKeys, flat |-> TRUE,  ws |-> "compact"],
      [wf |-> TRUE,  kind |-> "object", keys |-> SchemaKeys \cup {"notes"}, flat |-> TRUE, ws |-> "compact"],
      [wf |-> TRUE,  kind |-> "object", keys |-> {"payee"}, flat |-> TRUE,  ws |-> "compact"],
      [wf |-> TRUE,  kind |-> "object", keys |-> SchemaKeys, flat |-> FALSE, ws |-> "compact"],
      [wf |-> TRUE,  kind |-> "array",  keys |-> {},        flat |-> TRUE,  ws |-> "compact"],
      [wf |-> FALSE, kind |-> "prose",  keys |-> {},        flat |-> TRUE,  ws |-> "pretty"] }

\* Response objects fetch resolves with.
Responses ==
    { [ok |-> TRUE,  statusText |-> "OK"],
      [ok |-> FALSE, statusText |-> "Internal Server Error"],
      [ok |-> FALSE, statusText |-> ""] }

\* The Error each external call rejects with.
RejectionOf(call) ==
    CASE call = "arrayBuffer"   -> [message |-> "The requested file could not be read"]
      [] call = "getDocument"   -> [message |-> "Invalid PDF structure."]
      [] call = "getPage"       -> [message |-> "Invalid page request."]
      [] call = "render"        -> [message |-> "Canvas is already in use."]
      [] call = "recognizePage" -> [message |-> "Error attempting to read image."]
      [] call = "recognizeFile" -> [message |-> "Error attempting to read image."]
      [] call = "create"        -> [message |-> "429 Rate limit reached"]
      [] call = "fetch"         -> [message |-> "Failed to fetch"]

(***************************************************************************)
(* Library functions the code calls synchronously                          *)
(***************************************************************************)
\* String.prototype.includes
Includes(s, sub) ==
    \E k \in 1..(Len(s) - Len(sub) + 1) : SubSeq(s, k, k + Len(sub) - 1) = sub

\* JSON.parse: a value for well-formed text, a SyntaxError otherwise.  The
\* value keeps what the text denotes and forgets its layout.
JSONparse(text) ==
    IF text.wf
    THEN [ok |-> TRUE, message |-> "",
          value |-> [kind |-> text.kind, keys |-> text.keys, flat |-> text.flat]]
    ELSE [ok |-> FALSE, message |-> "Unexpected token in JSON",
          value |-> [kind |-> "none", keys |-> {}, flat |-> TRUE]]

\* JSON.stringify without an indent argument: the compact text of a value.
JSONstringify(v) ==
    [wf |-> TRUE, kind |-> v.kind, keys |-> v.keys, flat |-> v.flat, ws |-> "compact"]

\* Tesseract.recognize(...).data.text for page i of a file (i = 1 for an image).
Recognized(file, i) == file.pages[i]

(***************************************************************************)
(* Activation frames of processFiles                                       *)
(***************************************************************************)
\* The locals of one activation, plus a record of what it did:
\*   files          the selection the closure captured when it was invoked
\*   pc             the call it is suspended on, or "returned"
\*   f, i           position of the for-of loop and of the page loop
\*   numPages       pdf.numPages of the PDF being processed
\*   fullText       the accumulator of line 29
\*   log            every external call the activation issued, with outcome
\*   userContent    the user message of each generation request sent
\*   content        the content string each completion carried
\*   extractedJson  each value JSON.parse returned
\*   body           the body of each POST sent
\*   response       each Response fetch resolved with
\*   thrown         each error that reached the catch block
\*   before         the status the button was clicked in
NewFrame(sel) ==
    [files |-> sel, before |-> status, pc |-> "invoked", f |-> 0, i |-> 0, numPages |-> 0,
     fullText |-> "", log |-> <<>>, userContent |-> <<>>, content |-> <<>>,
     extractedJson |-> <<>>, body |-> <<>>, response |-> <<>>, thrown |-> <<>>]

Live(fr) == fr.pc # "returned"

\* A "world" is what a synchronous stretch of activation r reads and writes:
\* its frame, the two state cells it sets, and the calls in flight.
World(r) ==
    [r |-> r, fr |-> runs[r], status |-> status, errorLog |-> errorLog,
     inflight |-> inflight]

CallOf(r, fr) == [run |-> r, call |-> fr.pc, f |-> fr.f, i |-> fr.i]

\* Start an external call and suspend on it (an `await <call>` expression).
Issue(w, call) ==
    [w EXCEPT
       !.fr.pc = call,
       !.fr.log = Append(@, [call |-> call, f |-> w.fr.f, i |-> w.fr.i,
                             outcome |-> "pending", message |-> ""]),
       !.inflight = @ \cup { [run |-> w.r, call |-> call, f |-> w.fr.f, i |-> w.fr.i] }]

\* The call activation r is suspended on settles: it leaves the set of calls
\* in flight and its outcome is noted.
Settled(r, outcome, message) ==
    LET fr == runs[r]
        n  == Len(fr.log)
    IN  [World(r) EXCEPT
           !.fr.log[n].outcome = outcome,
           !.fr.log[n].message = message,
           !.inflight = @ \ { CallOf(r, fr) }]

Resolved(r) == Settled(r, "resolved", "")
Rejected(r) == Settled(r, "rejected", RejectionOf(runs[r].pc).message)

(***************************************************************************)
(* processFiles, line by line                                              *)
(***************************************************************************)
\* Variant of the catch block that leaves errorLog alone.
Catch_NoMessage(w, err) ==
    [w EXCEPT !.status = "error", !.fr.pc = "returned"]

\* Variant of the catch block that leaves status alone.
Catch_KeepsStatus(w, err) ==
    [w EXCEPT !.errorLog = err.message, !.fr.pc = "returned"]

\* catch (err) { console.error(err); setStatus("error"); setErrorLog(err.message); }
Catch(w, err) ==
    [w EXCEPT !.status = "error", !.errorLog = err.message, !.fr.pc = "returned"]

\* An exception raised inside the try block (every await and the JSON.parse
\* are inside it): control goes to the catch block.
Throw(w, err) ==
    Catch([w EXCEPT !.fr.thrown = Append(@, err)], err)

\* Variant of the accumulation that drops the separator.
Accumulate_NoNewline(fullText, text) == fullText \o text

\* fullText += text + "\n";
Accumulate(fullText, text) == fullText \o text \o "\n"

\* Step 2: setStatus(...); await groq.chat.completions.create({... fullText ...})
Extract(w) ==
    Issue([w EXCEPT !.status = "processing: Extracting Data via AI...",
                    !.fr.userContent = Append(@, w.fr.fullText)],
          "create")

\* for (const file of files): the iteration for the file at index f, or the
\* code after the loop when the selection is exhausted.
LoopFiles(w, f) ==
    IF f > Len(w.fr.files)
    THEN Extract(w)
    ELSE LET w1 == [w EXCEPT !.fr.f = f, !.fr.i = 0, !.fr.numPages = 0]
         IN  IF w.fr.files[f].type = PDF
             THEN Issue(w1, "arrayBuffer")
             ELSE Issue([w1 EXCEPT !.fr.i = 1], "recognizeFile")

\* for (let i = 1; i <= pdf.numPages; i++): the iteration for page i, or the
\* next file when the pages are exhausted.
LoopPages(w, i) ==
    IF i <= w.fr.numPages
    THEN Issue([w EXCEPT !.fr.i = i], "getPage")
    ELSE LoopFiles(w, w.fr.f + 1)

\* const pdf = await pdfjs.getDocument(arrayBuffer).promise; then the page loop
OnDocument(w) ==
    LoopPages([w EXCEPT !.fr.numPages = Len(w.fr.files[w.fr.f].pages)], 1)

\* const { data: { text } } = await Tesseract.recognize(canvas.toDataURL());
\* fullText += text + "\n";  then i++
OnPageText(w, text) ==
    LoopPages([w EXCEPT !.fr.fullText = Accumulate(@, text)], w.fr.i + 1)

\* Variant that requests a record after each image instead of after the loop.
OnFileText_ExtractsPerFile(w, text) ==
    Extract([w EXCEPT !.fr.fullText = Accumulate(@, text)])

\* const { data: { text } } = await Tesseract.recognize(file);
\* fullText += text + "\n";  then the next file
OnFileText(w, text) ==
    LoopFiles([w EXCEPT !.fr.fullText = Accumulate(@, text)], w.fr.f + 1)

\* Variant that posts the completion's content as it came, without parsing.
OnCompletion_ForwardsRaw(w, content) ==
    Issue([w EXCEPT
             !.fr.content = Append(@, content),
             !.status = "processing: Saving to Server...",
             !.fr.body = Append(@, content)],
          "fetch")

\* const extractedJson = JSON.parse(completion.choices[0].message.content);
\* Step 3: setStatus(...); await fetch(url, { ..., body: JSON.stringify(extractedJson) })
OnCompletion(w, content) ==
    LET parsed == JSONparse(content)
        w1     == [w EXCEPT !.fr.content = Append(@, content)]
    IN  IF ~parsed.ok
        THEN Throw(w1, [message |-> parsed.message])
        ELSE Issue([w1 EXCEPT
                      !.fr.extractedJson = Append(@, parsed.value),
                      !.status = "processing: Saving to Server...",
                      !.fr.body = Append(@, JSONstringify(parsed.value))],
                   "fetch")

\* Variant that does not look at response.ok.
OnResponse_IgnoresOk(w, response) ==
    [w EXCEPT !.fr.response = Append(@, response),
              !.status = "success", !.fr.pc = "returned"]

\* Variant that sends the POST again after a non-ok response.
OnResponse_Retries(w, response) ==
    LET w1 == [w EXCEPT !.fr.response = Append(@, response)]
    IN  IF response.ok
        THEN [w1 EXCEPT !.status = "success", !.fr.pc = "returned"]
        ELSE Issue(w1, "fetch")

\* if (response.ok) setStatus("success");
\* else throw new Error(`Server failed: ${response.statusText}`);
OnResponse(w, response) ==
    LET w1 == [w EXCEPT !.fr.response = Append(@, response)]
    IN  IF response.ok
        THEN [w1 EXCEPT !.status = "success", !.fr.pc = "returned"]
        ELSE Throw(w1, [message |-> "Server failed: " \o response.statusText])

\* Variant of the empty-selection guard that also resets the status display.
RejectEmpty_ResetsStatus ==
    /\ alertOpen' = TRUE
    /\ status' = "idle"
    /\ errorLog' = ""
    /\ UNCHANGED <<files, runs, inflight>>

\* if (files.length === 0) return alert("Please upload files first");
RejectEmpty ==
    /\ alertOpen' = TRUE
    /\ UNCHANGED <<files, status, errorLog, runs, inflight>>

\* Variant of the start of a run without setErrorLog("").
StartRun_KeepsErrorLog ==
    LET keep == IF \E k \in 1..Len(runs) : Live(runs[k]) THEN runs ELSE <<>>
        r    == Len(keep) + 1
        w    == LoopFiles([r |-> r, fr |-> NewFrame(files), status |-> "processing",
                           errorLog |-> errorLog, inflight |-> inflight], 1)
    IN  /\ r <= MaxFrames
        /\ runs' = Append(keep, w.fr)
        /\ status' = w.status
        /\ errorLog' = w.errorLog
        /\ inflight' = w.inflight
        /\ UNCHANGED <<files, alertOpen>>

\* setStatus("processing"); setErrorLog(""); let fullText = ""; then the
\* first iteration of the loop up to its first await.  The new frame joins
\* the live frames; frames of activations that have all returned are kept
\* for inspection only until the next activation starts.
StartRun ==
    LET keep == IF \E k \in 1..Len(runs) : Live(runs[k]) THEN runs ELSE <<>>
        r    == Len(keep) + 1
        w    == LoopFiles([r |-> r, fr |-> NewFrame(files), status |-> "processing",
                           errorLog |-> "", inflight |-> inflight], 1)
    IN  /\ r <= MaxFrames
        /\ runs' = Append(keep, w.fr)
        /\ status' = w.status
        /\ errorLog' = w.errorLog
        /\ inflight' = w.inflight
        /\ UNCHANGED <<files, alertOpen>>

\* const processFiles = async () => { ... } up to its first await
processFiles ==
    IF Len(files) = 0 THEN RejectEmpty ELSE StartRun

\* The state a synchronous stretch of an activation leaves behind.
Commit(w) ==
    /\ runs' = [runs EXCEPT ![w.r] = w.fr]
    /\ status' = w.status
    /\ errorLog' = w.errorLog
    /\ inflight' = w.inflight
    /\ UNCHANGED <<files, alertOpen>>

Suspended(r, call) ==
    /\ ~alertOpen
    /\ runs[r].pc = call
    /\ CallOf(r, runs[r]) \in inflight

(***************************************************************************)
(* User interface                                                          *)
(***************************************************************************)
\* Variant of the button that is never disabled.
Disabled_Never == FALSE

\* <button onClick={processFiles} disabled={status.includes("processing")}>
Disabled == Includes(status, "processing")

\* const handleFileChange = (e) => { setFiles(Array.from(e.target.files)); };
handleFileChange ==
    /\ ~alertOpen
    /\ \E sel \in Selections : files' = sel
    /\ UNCHANGED <<status, errorLog, alertOpen, runs, inflight>>

\* The user clicks "Process & Save".
Click ==
    /\ ~alertOpen
    /\ ~Disabled
    /\ processFiles

\* The user closes the alert; alert() returns and so does processFiles.
DismissAlert ==
    /\ alertOpen
    /\ alertOpen' = FALSE
    /\ UNCHANGED <<files, status, errorLog, runs, inflight>>

(***************************************************************************)
(* The awaited calls settle                                                *)
(***************************************************************************)
\* await file.arrayBuffer()
ArrayBufferSettled(r) ==
    /\ Suspended(r, "arrayBuffer")
    /\ \/ Commit(Issue(Resolved(r), "getDocument"))
       \/ Commit(Throw(Rejected(r), RejectionOf("arrayBuffer")))

\* await pdfjs.getDocument(arrayBuffer).promise
GetDocumentSettled(r) ==
    /\ Suspended(r, "getDocument")
    /\ \/ Commit(OnDocument(Resolved(r)))
       \/ Commit(Throw(Rejected(r), RejectionOf("getDocument")))

\* await pdf.getPage(i); viewport and canvas set-up; page.render(...) starts
GetPageSettled(r) ==
    /\ Suspended(r, "getPage")
    /\ \/ Commit(Issue(Resolved(r), "render"))
       \/ Commit(Throw(Rejected(r), RejectionOf("getPage")))

\* await page.render({ canvasContext: context, viewport }).promise
RenderSettled(r) ==
    /\ Suspended(r, "render")
    /\ \/ Commit(Issue(Resolved(r), "recognizePage"))
       \/ Commit(Throw(Rejected(r), RejectionOf("render")))

\* await Tesseract.recognize(canvas.toDataURL())
RecognizePageSettled(r) ==
    /\ Suspended(r, "recognizePage")
    /\ \/ Commit(OnPageText(Resolved(r), Recognized(runs[r].files[runs[r].f], runs[r].i)))
       \/ Commit(Throw(Rejected(r), RejectionOf("recognizePage")))

\* await Tesseract.recognize(file)
RecognizeFileSettled(r) ==
    /\ Suspended(r, "recognizeFile")
    /\ \/ Commit(OnFileText(Resolved(r), Recognized(runs[r].files[runs[r].f], 1)))
       \/ Commit(Throw(Rejected(r), RejectionOf("recognizeFile")))

\* await groq.chat.completions.create({...})
CreateSettled(r) ==
    /\ Suspended(r, "create")
    /\ \/ \E content \in Contents : Commit(OnCompletion(Resolved(r), content))
       \/ Commit(Throw(Rejected(r), RejectionOf("create")))

\* await fetch("https://apps.equicomservices.com/rfp/salam.php", {...})
FetchSettled(r) ==
    /\ Suspended(r, "fetch")
    /\ \/ \E response \in Responses : Commit(OnResponse(Resolved(r), response))
       \/ Commit(Throw(Rejected(r), RejectionOf("fetch")))

\* Some awaited call settles.
CallSettles ==
    \E r \in 1..Len(runs) :
        \/ ArrayBufferSettled(r)
        \/ GetDocumentSettled(r)
        \/ GetPageSettled(r)
        \/ RenderSettled(r)
        \/ RecognizePageSettled(r)
        \/ RecognizeFileSettled(r)
        \/ CreateSettled(r)
        \/ FetchSettled(r)

(***************************************************************************)
(* Specifications                                                          *)
(***************************************************************************)
Init ==
    /\ files = <<>>
    /\ status = "idle"
    /\ errorLog = ""
    /\ alertOpen = FALSE
    /\ runs = <<>>
    /\ inflight = {}

Next ==
    \/ handleFileChange
    \/ Click
    \/ DismissAlert
    \/ \E r \in 1..Len(runs) : ArrayBufferSettled(r)
    \/ \E r \in 1..Len(runs) : GetDocumentSettled(r)
    \/ \E r \in 1..Len(runs) : GetPageSettled(r)
    \/ \E r \in 1..Len(runs) : RenderSettled(r)
    \/ \E r \in 1..Len(runs) : RecognizePageSettled(r)
    \/ \E r \in 1..Len(runs) : RecognizeFileSettled(r)
    \/ \E r \in 1..Len(runs) : CreateSettled(r)
    \/ \E r \in 1..Len(runs) : FetchSettled(r)

Spec == Init /\ [][Next]_vars

\* Every external call eventually resolves or rejects.
FairSpec == Spec /\ WF_vars(CallSettles)

(***************************************************************************)
(* Vocabulary of the properties                                            *)
(***************************************************************************)
Frames == { runs[r] : r \in 1..Len(runs) }

Processing == Includes(status, "processing")

\* The (file, page) pairs a batch is made of, files in upload order and the
\* pages of a PDF in ascending order; an image counts as its own page 1.
RECURSIVE PagesOf(_, _, _)
PagesOf(sel, f, i) ==
    IF f > Len(sel) THEN <<>>
    ELSE IF i > Len(sel[f].pages) THEN PagesOf(sel, f + 1, 1)
    ELSE <<  <<f, i>>  >> \o PagesOf(sel, f, i + 1)

ExpectedPages(sel) == PagesOf(sel, 1, 1)

\* The OCR outputs of those pages, each followed by one newline.
RECURSIVE Joined(_, _)
Joined(sel, pages) ==
    IF pages = <<>> THEN ""
    ELSE Recognized(sel[Head(pages)[1]], Head(pages)[2]) \o "\n" \o Joined(sel, Tail(pages))

ExpectedText(sel) == Joined(sel, ExpectedPages(sel))

IsRecognition(e) == e.call \in {"recognizePage", "recognizeFile"}

\* The (file, page) pairs an activation obtained an OCR result for, in order.
Recognitions(fr) ==
    LET done == SelectSeq(fr.log, LAMBDA e : IsRecognition(e) /\ e.outcome = "resolved")
    IN  [k \in 1..Len(done) |-> <<done[k].f, done[k].i>>]

Count(fr, call) == Cardinality({ k \in 1..Len(fr.log) : fr.log[k].call = call })

Range(seq) == { seq[k] : k \in 1..Len(seq) }

\* The message of every failure an activation met.
FailureMessages(fr) ==
    { e.message : e \in { x \in Range(fr.log) : x.outcome = "rejected" } }
      \cup { JSONparse(c).message : c \in { x \in Range(fr.content) : ~JSONparse(x).ok } }
      \cup { "Server failed: " \o p.statusText : p \in { x \in Range(fr.response) : ~x.ok } }

Failed(fr) == FailureMessages(fr) # {}

(***************************************************************************)
(* C1  status is "success" only when the activation that set it obtained   *)
(* an OCR result for every file and page of its batch, got a generation    *)
(* response that parsed as JSON, and got an ok response to its POST.       *)
(***************************************************************************)
AllStagesComplete(fr) ==
    /\ ~Live(fr)
    /\ \A e \in Range(fr.log) : e.outcome = "resolved"
    /\ Recognitions(fr) = ExpectedPages(fr.files)
    /\ Len(fr.content) = 1 /\ JSONparse(fr.content[1]).ok
    /\ Len(fr.response) = 1 /\ fr.response[1].ok

C1_SuccessOnlyAfterAllStages ==
    status = "success" => runs # <<>> /\ AllStagesComplete(runs[Len(runs)])

C1_Witness ==
    /\ status = "success"
    /\ Len(runs) = 1
    /\ Len(runs[1].files) = 2
    /\ runs[1].files[1].type = PDF

(***************************************************************************)
(* C2  an activation that met a failure has returned, status is "error"    *)
(* and errorLog is the message of that failure (for a non-ok response,     *)
(* "Server failed: " followed by the status text); this stays so until a   *)
(* new activation starts.                                                  *)
(***************************************************************************)
C2_FailureEndsInError ==
    \A fr \in Frames :
        Failed(fr) =>
            /\ ~Live(fr)
            /\ status = "error"
            /\ FailureMessages(fr) = { errorLog }

C2_Witness ==
    /\ status = "error"
    /\ errorLog = "Server failed: Internal Server Error"
    /\ \E fr \in Frames : Failed(fr)

(***************************************************************************)
(* C3  after a failure an activation issues no further external call: a    *)
(* rejected call is the last call of its activation, an unparseable        *)
(* generation response is followed by no POST, and a non-ok response is    *)
(* followed by no second POST.                                             *)
(***************************************************************************)
C3_NoCallAfterFailure ==
    \A fr \in Frames :
        /\ \A k \in 1..Len(fr.log) : fr.log[k].outcome = "rejected" => k = Len(fr.log)
        /\ (\E c \in Range(fr.content) : ~JSONparse(c).ok) =>
               Count(fr, "fetch") = 0 /\ fr.body = <<>>
        /\ (\E p \in Range(fr.response) : ~p.ok) =>
               Count(fr, "fetch") = 1 /\ fr.log[Len(fr.log)].call = "fetch"
        /\ Failed(fr) => ~Live(fr) /\ \A c \in inflight : runs[c.run] # fr

C3_Witness ==
    \E fr \in Frames :
        /\ fr.response = << [ok |-> FALSE, statusText |-> "Internal Server Error"] >>
        /\ Len(fr.extractedJson) = 1
        /\ ~Live(fr)

(***************************************************************************)
(* C4  the user message of a generation request is the OCR outputs of the  *)
(* batch, files in upload order and pages 1..P in ascending order, each    *)
(* followed by one newline; one recognition was made per image and one per *)
(* PDF page, in that order.                                                *)
(***************************************************************************)
C4_TextIsOrderedConcatenation ==
    \A fr \in Frames :
        fr.userContent # <<>> =>
            /\ \A k \in 1..Len(fr.userContent) : fr.userContent[k] = ExpectedText(fr.files)
            /\ Recognitions(fr) = ExpectedPages(fr.files)

C4_Witness ==
    \E fr \in Frames :
        /\ Len(fr.files) = 2
        /\ fr.files[1].type = PDF
        /\ fr.files[2].type # PDF
        /\ fr.userContent = << "b1\nb2\na\n" >>

(***************************************************************************)
(* C5 as stated: every activation that has returned issued exactly one     *)
(* generation request and parsed exactly one record from it, and sent at   *)
(* most one POST.                                                          *)
(***************************************************************************)
C5_ExactlyOneRecordPerRun ==
    \A fr \in Frames :
        ~Live(fr) =>
            /\ Count(fr, "create") = 1
            /\ Len(fr.extractedJson) = 1
            /\ Count(fr, "fetch") <= 1

(***************************************************************************)
(* C5 amended: an activation issues at most one generation request, parses *)
(* at most one record and sends at most one POST, whatever the number of   *)
(* files; the request is issued exactly when the whole batch has been      *)
(* recognized, and the record is parsed (and posted) exactly when the      *)
(* completion's content is well-formed JSON.                               *)
(***************************************************************************)
C5_AtMostOneRecordPerRun ==
    \A fr \in Frames :
        /\ Count(fr, "create") <= 1
        /\ Len(fr.userContent) = Count(fr, "create")
        /\ Len(fr.extractedJson) <= 1
        /\ Count(fr, "fetch") <= 1
        /\ Count(fr, "create") = 1 <=> Recognitions(fr) = ExpectedPages(fr.files)
        /\ Len(fr.extractedJson) = 1 <=> \E c \in Range(fr.content) : JSONparse(c).ok
        /\ Count(fr, "fetch") = Len(fr.extractedJson)

C5_Witness ==
    \E fr \in Frames :
        /\ Len(fr.files) = 2
        /\ Len(ExpectedPages(fr.files)) = 4
        /\ Count(fr, "create") = 1
        /\ Len(fr.extractedJson) = 1
        /\ Count(fr, "fetch") = 1

(***************************************************************************)
(* C6  while the selection is empty and no run is in progress, no step     *)
(* (a click on the button included) changes status, errorLog, the          *)
(* activations or the calls in flight; the step that raises the alert      *)
(* changes nothing else.                                                   *)
(***************************************************************************)
C6_EmptySelectionChangesNothing ==
    [][ /\ (files = <<>> /\ ~Processing) =>
              /\ status' = status
              /\ errorLog' = errorLog
              /\ runs' = runs
              /\ inflight' = inflight
        /\ (~alertOpen /\ alertOpen') =>
              /\ files = <<>>
              /\ UNCHANGED <<files, status, errorLog, runs, inflight>> ]_vars

C6_Witness ==
    /\ alertOpen
    /\ files = <<>>
    /\ status = "error"
    /\ errorLog = "Invalid PDF structure."
    /\ inflight = {}

(***************************************************************************)
(* C7  at most one external call is in flight; at most one activation is   *)
(* live, it is suspended on exactly the call in flight, and while it lives *)
(* the status is a processing status.                                      *)
(***************************************************************************)
C7_OneCallInFlight ==
    /\ Cardinality(inflight) <= 1
    /\ Cardinality({ r \in 1..Len(runs) : Live(runs[r]) }) <= 1
    /\ inflight = { CallOf(r, runs[r]) : r \in { k \in 1..Len(runs) : Live(runs[k]) } }
    /\ (\E fr \in Frames : Live(fr)) => Processing

C7_Witness ==
    /\ inflight = { [run |-> 1, call |-> "recognizePage", f |-> 2, i |-> 2] }
    /\ files # runs[1].files
    /\ Count(runs[1], "recognizeFile") = 1

(***************************************************************************)
(* C8  status moves only idle -> processing, processing -> Extracting ->   *)
(* Saving -> success, any processing status -> error, and success or error *)
(* -> processing; the last happens only when an activation starts on a     *)
(* non-empty selection, and it leaves errorLog empty.                      *)
(***************************************************************************)
StatusTransitions ==
    { <<"idle", "processing">>,
      <<"processing", "processing: Extracting Data via AI...">>,
      <<"processing: Extracting Data via AI...", "processing: Saving to Server...">>,
      <<"processing: Saving to Server...", "success">>,
      <<"processing", "error">>,
      <<"processing: Extracting Data via AI...", "error">>,
      <<"processing: Saving to Server...", "error">>,
      <<"success", "processing">>,
      <<"error", "processing">> }

C8_StatusTransitions ==
    [][ /\ status' # status => <<status, status'>> \in StatusTransitions
        /\ (status \in {"idle", "success", "error"} /\ status' # status) =>
              /\ files # <<>>
              /\ errorLog' = ""
              /\ runs' = << runs'[1] >>
              /\ runs'[1].files = files
              /\ Len(runs'[1].log) = 1
        /\ (errorLog' # errorLog) => (status' = "error" \/ status' = "processing") ]_vars

C8_Witness ==
    /\ status = "processing"
    /\ errorLog = ""
    /\ Len(runs) = 1
    /\ runs[1].before = "error"

(***************************************************************************)
(* C9 as stated: every body sent to the persistence endpoint denotes a     *)
(* flat object with exactly the eleven schema keys.                        *)
(***************************************************************************)
IsStructuredRecord(v) ==
    v.kind = "object" /\ v.keys = SchemaKeys /\ v.flat

C9_BodyIsStructuredRecord ==
    \A fr \in Frames :
        \A b \in Range(fr.body) : b.wf /\ IsStructuredRecord(JSONparse(b).value)

(***************************************************************************)
(* C9 amended: every body sent to the persistence endpoint is the compact  *)
(* JSON text of the value the generation response denotes, whatever that   *)
(* value is (no schema is checked); a response that is not well-formed     *)
(* JSON is never forwarded.                                                *)
(***************************************************************************)
C9_BodyIsParsedResponse ==
    \A fr \in Frames :
        /\ Len(fr.body) <= Len(fr.content)
        /\ \A k \in 1..Len(fr.body) :
              /\ fr.content[k].wf
              /\ fr.body[k].wf
              /\ fr.body[k].ws = "compact"
              /\ fr.body[k].kind = fr.content[k].kind
              /\ fr.body[k].keys = fr.content[k].keys
              /\ fr.body[k].flat = fr.content[k].flat
        /\ \A k \in 1..Len(fr.content) : ~fr.content[k].wf => Len(fr.body) < k

C9_Witness ==
    \E fr \in Frames :
        /\ Len(fr.body) = 1
        /\ fr.content[1].keys = {"payee"}
        /\ fr.body[1].keys = {"payee"}
        /\ Count(fr, "fetch") = 1

(***************************************************************************)
(* C10  if every external call eventually settles, a run in a processing   *)
(* status eventually shows success or error; and as long as the call in    *)
(* flight has not settled, the status stays a processing status and no     *)
(* activation starts.                                                      *)
(***************************************************************************)
C10_RunEventuallyEnds ==
    /\ Processing ~> (status = "success" \/ status = "error")
    /\ [][ (inflight # {} /\ inflight' = inflight) =>
              /\ Processing /\ Processing'
              /\ runs' = runs ]_vars

C10_Witness ==
    /\ status = "error"
    /\ Len(runs) = 1
    /\ runs[1].before = "success"
    /\ Len(runs[1].log) = 9
    /\ inflight = {}

====
